---- MODULE Spec2Model ----
(***************************************************************************)
(* State-machine model of src/investment_system.py: the projects table,    *)
(* the attachment tree under FILE_STORAGE_DIR, and the ProjectManager      *)
(* operations add_project, delete_project and update_project_stage.        *)
(*                                                                         *)
(* A relative path "{stage}/{project_id}/{file_name}" is the record        *)
(* [stage, id, file]; a file name "{timestamp}_{safe_name}" is the record  *)
(* [ts, name]; a string is a sequence of one-character strings.            *)
(*                                                                         *)
(* Fault model.  A file operation that really touches the disk may raise   *)
(* OSError (copy2, mkdir of a missing directory, a rename to another       *)
(* path, os.remove, rmdir, rmtree); db.commit() may raise when it has an   *)
(* INSERT, UPDATE or DELETE to flush.  Faults are inputs of the actions.   *)
(*                                                                         *)
(* Specifications.  Spec runs each call as one step.  ListSpec adds the    *)
(* listing query, SanitizeSpec applies sanitize_filename to bounded        *)
(* names.  CrashSpec runs the calls statement by statement in one session  *)
(* and lets the process be killed between two statements; ConcSpec runs    *)
(* them statement by statement in NumSessions sessions.                    *)
(***************************************************************************)
EXTENDS Integers, Sequences, FiniteSets, TLC

\* ---------------------------------------------------------------- bounds
NumIds == 2        \* distinct values generate_project_id can return
NumStages == 2     \* how many of the PROJECT_STAGES labels are modelled
MaxFiles == 2      \* incoming files per add_project call
MaxClock == 1      \* seconds the wall clock can advance
MaxFaults == 1     \* faults (OSError, failed commit) injected in one run
MaxLen == 3        \* characters of a file name given to sanitize_filename
NumSessions == 2   \* sessions (threads) that run calls at the same time
MaxCrashes == 1    \* times the process is killed and started again
MaxOverlaps == 1   \* times a call begins while another is in flight

VARIABLES
  db,      \* the projects table: project id -> row
  files,   \* the relative paths of the files under FILE_STORAGE_DIR
  dirs,    \* the project directories {stage}/{project_id} that exist
  now,     \* datetime.now(), in seconds
  last,    \* what the last completed call was and returned
  faults,  \* faults injected so far
  calls,   \* the call each session is in the middle of
  crashes, \* times the process was killed so far
  overlaps \* times a call began while another was in flight

vars == <<db, files, dirs, now, last, faults, calls, crashes, overlaps>>

\* ------------------------------------------------------------- constants
\* PROJECT_STAGES: the stage labels, by position in the list.
PROJECT_STAGES == 1..NumStages

\* The values of the 8 hex digits of generate_project_id.
Ids == 1..NumIds

\* The keys add_project reads from project_data:
\*   "name" = 项目名称, "type" = 项目类型, "industry" = 所属行业,
\*   "industry_code" = 所属行业代码, "financial" = 项目核心财务数据,
\*   "team" = 项目团队, "model" = 商业模式, "resource" = 核心竞争资源,
\*   "share" = 市场占有率, "outlook" = 商业展望, "other" = 其他.
DataKeys ==
  {"name", "type", "industry", "industry_code", "financial", "team",
   "model", "resource", "share", "outlook", "other"}

\* dict.get(key, ""): the value, or "" when the key is missing.
Get(project_data, key) ==
  IF key \in DOMAIN project_data THEN project_data[key] ELSE ""

\* ------------------------------------------------------ sanitize_filename
\* \w of the regular expressions (letters, digits, underscore, CJK).
WordChars == {"a", "b", "i", "n", "t", "u", "m", "e", "d", "f", "l", "_"}

\* re.sub(r'[^\w\u4e00-\u9fff\-_. ]', '', name) keeps these in the stem.
StemChars == WordChars \cup {"-", "_", ".", " "}

\* re.sub(r'[^\w.]', '', ext) keeps these in the extension.
ExtChars == WordChars \cup {"."}

UnnamedFile == <<"u", "n", "n", "a", "m", "e", "d", "_", "f", "i", "l", "e">>

DotBin == <<".", "b", "i", "n">>

LastIndexOf(s, c) ==
  LET hits == {k \in 1..Len(s) : s[k] = c}
  IN IF hits = {} THEN 0 ELSE CHOOSE k \in hits : \A j \in hits : j <= k

\* os.path.splitext: the extension starts at the last dot of the last path
\* component, unless only dots precede it there.
SplitExt(p) ==
  LET sepIndex == LastIndexOf(p, "/")
      dotIndex == LastIndexOf(p, ".")
  IN IF dotIndex > sepIndex
        /\ \E k \in (sepIndex + 1)..(dotIndex - 1) : p[k] # "."
     THEN <<SubSeq(p, 1, dotIndex - 1), SubSeq(p, dotIndex, Len(p))>>
     ELSE <<p, <<>>>>

\* Mutant of Keep: nothing is taken out.
KeepAll(s, allowed) == s

\* re.sub(r'[^...]', '', s): the characters of s that are allowed.
Keep(s, allowed) == SelectSeq(s, LAMBDA c : c \in allowed)

sanitize_filename(filename) ==
  IF filename = <<>> THEN UnnamedFile \o DotBin
  ELSE LET parts == SplitExt(filename)
           safe_name == Keep(parts[1], StemChars)
           safe_ext == Keep(parts[2], ExtChars)
       IN (IF safe_name = <<>> THEN UnnamedFile ELSE safe_name)
          \o (IF safe_ext = <<>> THEN DotBin ELSE safe_ext)

\* ------------------------------------------------------------- file store
\* FILE_STORAGE_DIR / stage / project_id
ProjectDir(stage, project_id) == <<stage, project_id>>

\* f"{relative_dir}/{file_name}" with file_name = f"{timestamp}_{safe_name}"
RelPath(stage, project_id, timestamp, safe_name) ==
  [stage |-> stage, id |-> project_id,
   file |-> [ts |-> timestamp, name |-> safe_name]]

\* The directory a relative path lies in.
DirOf(rel_path) == ProjectDir(rel_path.stage, rel_path.id)

\* old_dir.iterdir(): the files of a project directory.
FilesIn(fs, dir) == {p \in fs : DirOf(p) = dir}

\* An incoming file of add_project: None, or an upload whose basename is
\* name; out says how its save ends ("ok", "mkdir_fail": mkdir raises,
\* "copy_fail": copy2 raises), tick whether the clock reaches the next second
\* before it is saved.
NoUpload == [present |-> FALSE, name |-> <<>>, out |-> "ok", tick |-> FALSE]

\* Mutant of Saved: a path already collected is not collected again.
SavedOnce(paths, rel_path) ==
  IF \E k \in 1..Len(paths) : paths[k] = rel_path THEN paths
  ELSE Append(paths, rel_path)

\* The outcome appended on success: file_paths.append(file_path).
Saved(paths, rel_path) == Append(paths, rel_path)

\* Mutant of save_uploaded_file: the path is returned although copy2 raised.
save_uploaded_file_blind(file, stage, project_id, st) ==
  LET t == IF file.tick /\ st.now < MaxClock THEN st.now + 1 ELSE st.now
      abs_dir == <<stage, project_id>>
      rel == [stage |-> stage, id |-> project_id,
              file |-> [ts |-> t, name |-> file.name]]
  IN CASE file.out = "mkdir_fail" ->
            [st EXCEPT !.now = t]
       [] file.out = "copy_fail" ->
            [st EXCEPT !.now = t, !.dirs = @ \cup {abs_dir},
                       !.paths = Append(@, rel)]
       [] OTHER ->
            [st EXCEPT !.now = t, !.dirs = @ \cup {abs_dir},
                       !.files = @ \cup {rel}, !.paths = Append(@, rel)]

\* save_uploaded_file on the disk st = [files, dirs, now, paths]: the disk
\* after it, with the returned relative path appended to paths unless it
\* returned None.
save_uploaded_file(file, stage, project_id, st) ==
  LET t == IF file.tick /\ st.now < MaxClock THEN st.now + 1 ELSE st.now
      abs_dir == ProjectDir(stage, project_id)
      rel == RelPath(stage, project_id, t, sanitize_filename(file.name))
  IN CASE file.out = "mkdir_fail" ->
            [st EXCEPT !.now = t]
       [] file.out = "copy_fail" ->
            [st EXCEPT !.now = t, !.dirs = @ \cup {abs_dir}]
       [] OTHER ->
            [st EXCEPT !.now = t, !.dirs = @ \cup {abs_dir},
                       !.files = @ \cup {rel}, !.paths = Saved(@, rel)]

\* The loop of add_project over files (None entries are skipped).
RECURSIVE SaveAll(_, _, _, _)
SaveAll(uploads, stage, project_id, st) ==
  IF uploads = <<>> THEN st
  ELSE LET file == Head(uploads)
       IN SaveAll(Tail(uploads), stage, project_id,
                  IF file.present
                  THEN save_uploaded_file(file, stage, project_id, st)
                  ELSE st)

\* --------------------------------------------------------------- database
\* Mutant of get_db: the pending changes survive an exception.
get_db_no_rollback(before, after, raised) == after

\* get_db: commit on success, rollback on an exception; before is the
\* table at the start of the transaction, after the table with the pending
\* changes, raised whether the body or the commit raised.
get_db(before, after, raised) == IF raised THEN before ELSE after

\* Project(...): the row add_project builds.
Project(project_id, stage, project_data, remark, marked, file_paths, t) ==
  [id |-> project_id,
   name |-> Get(project_data, "name"),
   stage |-> stage,
   project_type |-> Get(project_data, "type"),
   industry |-> Get(project_data, "industry"),
   industry_code |-> Get(project_data, "industry_code"),
   financial_data |-> Get(project_data, "financial"),
   team |-> Get(project_data, "team"),
   business_model |-> Get(project_data, "model"),
   core_resource |-> Get(project_data, "resource"),
   market_share |-> Get(project_data, "share"),
   business_outlook |-> Get(project_data, "outlook"),
   other_info |-> Get(project_data, "other"),
   remark |-> remark,
   marked |-> marked,
   files |-> file_paths,
   create_time |-> t,
   update_time |-> t]

\* db.add(project)
Insert(table, row) ==
  [i \in DOMAIN table \cup {row.id} |-> IF i = row.id THEN row ELSE table[i]]

\* db.delete(project)
Remove(table, project_id) == [i \in DOMAIN table \ {project_id} |-> table[i]]

\* ------------------------------------------------------- what a call returned
EmptyData == [k \in {} |-> ""]

NoRequest == [project_data |-> EmptyData, remark |-> "", marked |-> ""]

\* The last completed call: the operation, its arguments, the kind of
\* message it returned ("ok", "invalid", "notfound", "error"), the stage it
\* read from the row (old_stage), and which faults it met.
Returned(op, project_id, stage, old_stage, result, request, nsaved, io, dbf) ==
  [op |-> op, id |-> project_id, stage |-> stage, old_stage |-> old_stage,
   result |-> result, request |-> request, nsaved |-> nsaved,
   io |-> io, dbf |-> dbf]

\* Mutant of NotFound: an unknown id is reported as a success.
NotFoundAsOk(op, project_id, stage) ==
  Returned(op, project_id, stage, 0, "ok", NoRequest, 0, FALSE, FALSE)

\* return "❌ 项目不存在": the call ends without having touched anything.
NotFound(op, project_id, stage) ==
  Returned(op, project_id, stage, 0, "notfound", NoRequest, 0, FALSE, FALSE)

\* ------------------------------------------------------------ add_project
\* Mutant of NameMissing: the name is not checked.
NameNeverMissing(project_data) == FALSE

\* if not project_name
NameMissing(project_data) == Get(project_data, "name") = ""

add_project(stage, project_data, remark, marked, uploads, project_id, commit_fails) ==
  LET request ==
        [project_data |-> project_data, remark |-> remark, marked |-> marked]
      st == SaveAll(uploads, stage, project_id,
                    [files |-> files, dirs |-> dirs, now |-> now,
                     paths |-> <<>>])
      project == Project(project_id, stage, project_data, remark, marked,
                         st.paths, st.now)
      \* the INSERT of an id the table already holds raises IntegrityError
      raised == commit_fails \/ project_id \in DOMAIN db
      nok == Cardinality({k \in 1..Len(uploads) :
                            uploads[k].present /\ uploads[k].out = "ok"})
      io == \E k \in 1..Len(uploads) :
              uploads[k].present /\ uploads[k].out # "ok"
  IN IF NameMissing(project_data)
     THEN /\ UNCHANGED <<db, files, dirs, now>>
          /\ last' = Returned("add", 0, stage, 0, "invalid", request, 0,
                              FALSE, FALSE)
     ELSE /\ files' = st.files
          /\ dirs' = st.dirs
          /\ now' = st.now
          /\ db' = get_db(db, Insert(db, project), raised)
          /\ last' = Returned("add", project_id, stage, 0,
                              IF raised THEN "error" ELSE "ok",
                              request, nok, io, raised)

\* ------------------------------------------------------ delete_project_files
\* The loop over project.files: os.remove of each path that exists; an
\* OSError (the indices in remove_fails) is swallowed and the file stays.
\* st = [files, io], k the index of the next path.
RECURSIVE RemoveAll(_, _, _, _)
RemoveAll(paths, k, remove_fails, st) ==
  IF k > Len(paths) THEN st
  ELSE RemoveAll(paths, k + 1, remove_fails,
         IF paths[k] \notin st.files THEN st
         ELSE IF k \in remove_fails THEN [st EXCEPT !.io = TRUE]
         ELSE [st EXCEPT !.files = @ \ {paths[k]}])

\* Mutant of delete_project_files: nothing is removed from the disk.
delete_project_files_none(project, remove_fails, rmtree_fails, rmtree_removed) ==
  [files |-> files, dirs |-> dirs, io |-> FALSE]

\* Mutant of NothingToDelete: every delete returns before it removes a file.
NothingToDeleteAlways(project) == TRUE

\* if not project.files: return
NothingToDelete(project) == project.files = <<>>

\* delete_project_files(project) on the disk [files, dirs]: the disk after
\* it and whether an OSError was swallowed.  rmtree either removes the
\* directory with all it holds, or raises after removing the files in
\* rmtree_removed (rmtree_fails), which is swallowed too.
delete_project_files(project, remove_fails, rmtree_fails, rmtree_removed) ==
  LET st == RemoveAll(project.files, 1, remove_fails,
                      [files |-> files, io |-> FALSE])
      project_dir == ProjectDir(project.stage, project.id)
  IN IF NothingToDelete(project)
     THEN [files |-> files, dirs |-> dirs, io |-> FALSE]
     ELSE IF project_dir \notin dirs
     THEN [files |-> st.files, dirs |-> dirs, io |-> st.io]
     ELSE IF rmtree_fails
     THEN [files |-> st.files \ (rmtree_removed \cap FilesIn(st.files, project_dir)),
           dirs |-> dirs, io |-> TRUE]
     ELSE [files |-> st.files \ FilesIn(st.files, project_dir),
           dirs |-> dirs \ {project_dir}, io |-> st.io]

\* --------------------------------------------------------- delete_project
delete_project(project_id, remove_fails, rmtree_fails, rmtree_removed, commit_fails) ==
  IF project_id \notin DOMAIN db
  THEN /\ UNCHANGED <<db, files, dirs, now>>
       /\ last' = NotFound("delete", project_id, 0)
  ELSE LET project == db[project_id]
           disk == delete_project_files(project, remove_fails, rmtree_fails,
                                        rmtree_removed)
       IN /\ files' = disk.files
          /\ dirs' = disk.dirs
          /\ now' = now
          /\ db' = get_db(db, Remove(db, project_id), commit_fails)
          /\ last' = Returned("delete", project_id, 0, project.stage,
                              IF commit_fails THEN "error" ELSE "ok",
                              NoRequest, 0, disk.io, commit_fails)

\* --------------------------------------------------- update_project_stage
\* Mutant of NewRelPath: the stored path is not rewritten.
NewRelPathStale(rel_path, new_stage, project_id) == rel_path

\* new_rel_path = f"{new_stage}/{project_id}/{file_name}"
NewRelPath(rel_path, new_stage, project_id) ==
  [stage |-> new_stage, id |-> project_id, file |-> rel_path.file]

\* Mutant of MoveOne: the file is copied to the new path and the old path
\* is then unlinked, which loses a file moved onto itself.
MoveOneCopyUnlink(rel_path, k, new_stage, project_id, fault, st) ==
  LET new_rel_path ==
        [stage |-> new_stage, id |-> project_id, file |-> rel_path.file]
      new_dir == <<new_stage, project_id>>
  IN IF st.raised \/ rel_path \notin st.files THEN st
     ELSE IF fault.at = k /\ fault.kind = "mkdir" /\ new_dir \notin st.dirs
     THEN [st EXCEPT !.raised = TRUE]
     ELSE IF fault.at = k /\ fault.kind = "move" /\ new_rel_path # rel_path
     THEN [st EXCEPT !.raised = TRUE, !.dirs = @ \cup {new_dir}]
     ELSE [st EXCEPT !.dirs = @ \cup {new_dir},
                     !.files = (@ \cup {new_rel_path}) \ {rel_path},
                     !.paths = Append(@, new_rel_path)]

\* One pass of the loop over project.files, for the path at index k.
\* st = [files, dirs, paths, raised]; fault = [at, kind] makes the mkdir
\* (of a directory that is missing) or the shutil.move (to another path) of
\* the path at index fault.at raise, which leaves the loop.
MoveOne(rel_path, k, new_stage, project_id, fault, st) ==
  LET new_rel_path == NewRelPath(rel_path, new_stage, project_id)
      new_dir == DirOf(new_rel_path)
  IN IF st.raised \/ rel_path \notin st.files THEN st
     ELSE IF fault.at = k /\ fault.kind = "mkdir" /\ new_dir \notin st.dirs
     THEN [st EXCEPT !.raised = TRUE]
     ELSE IF fault.at = k /\ fault.kind = "move" /\ new_rel_path # rel_path
     THEN [st EXCEPT !.raised = TRUE, !.dirs = @ \cup {new_dir}]
     ELSE [st EXCEPT !.dirs = @ \cup {new_dir},
                     !.files = (@ \ {rel_path}) \cup {new_rel_path},
                     !.paths = Append(@, new_rel_path)]

RECURSIVE MoveAll(_, _, _, _, _, _)
MoveAll(paths, k, new_stage, project_id, fault, st) ==
  IF k > Len(paths) THEN st
  ELSE MoveAll(paths, k + 1, new_stage, project_id, fault,
               MoveOne(paths[k], k, new_stage, project_id, fault, st))

\* Mutant of CleanOldDir: the old directory is left behind.
CleanOldDirNever(ds, fs, old_dir, rmdir_fails) == ds

\* if old_dir.exists() and not any(old_dir.iterdir()): old_dir.rmdir(),
\* an OSError of which (rmdir_fails) is swallowed.
CleanOldDir(ds, fs, old_dir, rmdir_fails) ==
  IF old_dir \in ds /\ FilesIn(fs, old_dir) = {} /\ ~rmdir_fails
  THEN ds \ {old_dir}
  ELSE ds

\* Mutant of Updated: the UPDATE also resets the mark.
UpdatedUnmarked(project, new_stage, new_files, t) ==
  [project EXCEPT !.stage = new_stage, !.files = new_files,
                  !.update_time = t, !.marked = "normal"]

\* The UPDATE the commit flushes: none when no column changed; update_time
\* is refreshed by onupdate when there is one.
Updated(project, new_stage, new_files, t) ==
  IF project.stage = new_stage /\ project.files = new_files THEN project
  ELSE [project EXCEPT !.stage = new_stage, !.files = new_files,
                       !.update_time = t]

update_project_stage(project_id, new_stage, fault, rmdir_fails, commit_fails) ==
  IF project_id \notin DOMAIN db
  THEN /\ UNCHANGED <<db, files, dirs, now>>
       /\ last' = NotFound("move", project_id, new_stage)
  ELSE LET project == db[project_id]
           old_stage == project.stage
           st == MoveAll(project.files, 1, new_stage, project_id, fault,
                         [files |-> files, dirs |-> dirs, paths |-> <<>>,
                          raised |-> FALSE])
           old_dir == ProjectDir(old_stage, project_id)
           new_dirs == IF st.raised THEN st.dirs
                       ELSE CleanOldDir(st.dirs, st.files, old_dir, rmdir_fails)
           row == Updated(project, new_stage, st.paths, now)
           dbf == ~st.raised /\ commit_fails /\ row # project
           io == st.raised
                 \/ (rmdir_fails /\ old_dir \in st.dirs
                     /\ FilesIn(st.files, old_dir) = {})
       IN /\ files' = st.files
          /\ dirs' = new_dirs
          /\ now' = now
          /\ db' = get_db(db, [db EXCEPT ![project_id] = row],
                          st.raised \/ dbf)
          /\ last' = Returned("move", project_id, new_stage, old_stage,
                              IF st.raised \/ dbf THEN "error" ELSE "ok",
                              NoRequest, 0, io, dbf)

\* ------------------------------------------------------------------ inputs
\* The form the presentation layer submits: every key set, the name left
\* empty.
EmptyNameData == [k \in DataKeys |-> IF k = "name" THEN "" ELSE k]

\* Every key set, each to a value of its own.
AlphaData == [k \in DataKeys |-> IF k = "name" THEN "Alpha" ELSE k]

\* Mutant of StageChoices: a stage that is no member of the list can be
\* submitted.
StageChoicesOpen == 0..NumStages

\* The stages the callers pass: stage_name of "for stage_name in
\* PROJECT_STAGES" to add_project, a choice of
\* gr.Dropdown(choices=PROJECT_STAGES) to update_project_stage.
StageChoices == PROJECT_STAGES

Requests ==
  {[project_data |-> EmptyNameData, remark |-> "", marked |-> "normal"],
   [project_data |-> AlphaData, remark |-> "r", marked |-> "highlight"]}

\* Basenames of uploaded files: "a*.t".
FileNames == {<<"a", "*", ".", "t">>}

Uploads ==
  {NoUpload}
  \cup [present : {TRUE}, name : FileNames,
        out : {"ok", "mkdir_fail", "copy_fail"}, tick : BOOLEAN]

UploadLists == UNION {[1..n -> Uploads] : n \in 0..MaxFiles}

NoFault == [at |-> 0, kind |-> "none"]

MoveFaults == {NoFault} \cup [at : 1..MaxFiles, kind : {"mkdir", "move"}]

\* What rmtree of the project's directory can do: remove it all, or raise
\* after having removed some of its files.
RmtreeOutcomes(project_id) ==
  {[fails |-> FALSE, removed |-> {}]}
  \cup {[fails |-> TRUE, removed |-> r] :
          r \in SUBSET (IF project_id \in DOMAIN db
                        THEN FilesIn(files, ProjectDir(db[project_id].stage, project_id))
                        ELSE {})}

\* ----------------------------------------------------------------- queries
\* Mutant of Ordered: the rows come oldest update first.
OrderedAscending(table, stage) ==
  LET ids == {i \in DOMAIN table : table[i].stage = stage}
      n == Cardinality(ids)
  IN {s \in [1..n -> ids] :
        /\ \A j, k \in 1..n : j # k => s[j] # s[k]
        /\ \A j, k \in 1..n :
             j < k => table[s[j]].update_time <= table[s[k]].update_time}

\* .filter(Project.stage == stage).order_by(Project.update_time.desc()): the
\* orders the rows of the stage can come in, newest update first; the order
\* of rows updated in the same second is left to the database.
Ordered(table, stage) ==
  LET ids == {i \in DOMAIN table : table[i].stage = stage}
      n == Cardinality(ids)
  IN {s \in [1..n -> ids] :
        /\ \A j, k \in 1..n : j # k => s[j] # s[k]
        /\ \A j, k \in 1..n :
             j < k => table[s[j]].update_time >= table[s[k]].update_time}

\* .limit(limit).all() and the list comprehension: the first limit rows,
\* projected; strftime("%m-%d %H:%M") keeps the minute of the update time.
Projected(table, ordered, limit) ==
  [k \in 1..(IF limit < Len(ordered) THEN limit ELSE Len(ordered)) |->
     [id |-> table[ordered[k]].id,
      name |-> table[ordered[k]].name,
      marked |-> table[ordered[k]].marked,
      remark |-> IF table[ordered[k]].remark = "" THEN "none"
                 ELSE table[ordered[k]].remark,
      files |-> table[ordered[k]].files,
      update_time |-> table[ordered[k]].update_time \div 60]]

\* get_projects_by_stage: the rows of the stage, newest update first, at
\* most limit of them, projected.
get_projects_by_stage(table, stage, limit) ==
  Projected(table, CHOOSE s \in Ordered(table, stage) : TRUE, limit)

\* limit=100
DefaultLimit == 100

\* get_project_detail: "notfound" for an unknown id, else the row.
DetailFound(table, project_id) == project_id \in DOMAIN table

B2N(b) == IF b THEN 1 ELSE 0

\* A call may inject n faults while the run's budget lasts.
Inject(n) == faults + n <= MaxFaults /\ faults' = faults + n

\* ----------------------------------------------------------- calls in flight
\* The threads that run handlers; scoped_session gives each its own Session.
Sessions == 1..NumSessions

\* The value of a call's project before its query has returned a row.
NoProject == Project(0, 0, EmptyData, "", "", <<>>, 0)

\* A session that runs no call.
Idle ==
  [op |-> "idle", pc |-> "", id |-> 0, stage |-> 0, project |-> NoProject,
   request |-> NoRequest, n |-> 0, k |-> 0, paths |-> <<>>,
   io |-> FALSE, clean |-> FALSE]

\* ------------------------------------------------------------ state machine
Init ==
  /\ db = [i \in {} |-> 0]
  /\ files = {}
  /\ dirs = {}
  /\ now = 0
  /\ last = Returned("init", 0, 0, 0, "ok", NoRequest, 0, FALSE, FALSE)
  /\ faults = 0
  /\ calls = [s \in Sessions |-> Idle]
  /\ crashes = 0
  /\ overlaps = 0

\* The saves of a list of uploads that raise.
FailedSaves(uploads) ==
  Cardinality({k \in 1..Len(uploads) : uploads[k].out # "ok"})

\* The seconds that pass while a list of uploads is saved.
Ticks(uploads) == Cardinality({k \in 1..Len(uploads) : uploads[k].tick})

Add ==
  \E uploads \in UploadLists :
    /\ faults + FailedSaves(uploads) <= MaxFaults
    /\ now + Ticks(uploads) <= MaxClock
    /\ \E stage \in StageChoices, request \in Requests, project_id \in Ids,
          commit_fails \in BOOLEAN :
         /\ Inject(FailedSaves(uploads)
                   + B2N(commit_fails \/ project_id \in DOMAIN db))
         /\ add_project(stage, request.project_data, request.remark,
                        request.marked, uploads, project_id, commit_fails)
         /\ UNCHANGED <<calls, crashes, overlaps>>

Delete ==
  \E project_id \in Ids, remove_fails \in SUBSET (1..MaxFiles),
     commit_fails \in BOOLEAN :
   \E rmtree \in RmtreeOutcomes(project_id) :
       /\ Inject(Cardinality(remove_fails) + B2N(rmtree.fails)
                 + B2N(commit_fails))
       /\ delete_project(project_id, remove_fails, rmtree.fails,
                         rmtree.removed, commit_fails)
       /\ UNCHANGED <<calls, crashes, overlaps>>

Move ==
  \E project_id \in Ids, new_stage \in StageChoices, fault \in MoveFaults,
     rmdir_fails \in BOOLEAN, commit_fails \in BOOLEAN :
       /\ Inject(B2N(fault # NoFault) + B2N(rmdir_fails) + B2N(commit_fails))
       /\ update_project_stage(project_id, new_stage, fault, rmdir_fails,
                               commit_fails)
       /\ UNCHANGED <<calls, crashes, overlaps>>

\* The wall clock reaches the next second between two calls.
Tick ==
  /\ now < MaxClock
  /\ now' = now + 1
  /\ UNCHANGED <<db, files, dirs, faults, calls, crashes, overlaps>>
  /\ last' = Returned("tick", 0, 0, 0, "ok", NoRequest, 0, FALSE, FALSE)

Next == Add \/ Delete \/ Move \/ Tick

Spec == Init /\ [][Next]_vars

\* ------------------------------------------------ listing, as a call of its own
\* The limits get_projects_by_stage is called with: its default, and the
\* small ones that cut a list short.
Limits == 1..NumIds \cup {DefaultLimit}

\* What a call of get_projects_by_stage returned.
Listing(stage, limit, rows) ==
  [op |-> "list", id |-> 0, stage |-> stage, old_stage |-> 0,
   result |-> "ok", request |-> NoRequest, nsaved |-> 0, io |-> FALSE,
   dbf |-> FALSE, limit |-> limit, rows |-> rows]

List ==
  \E stage \in StageChoices, limit \in Limits :
    \E ordered \in Ordered(db, stage) :
      /\ last' = Listing(stage, limit, Projected(db, ordered, limit))
      /\ UNCHANGED <<db, files, dirs, now, faults, calls, crashes, overlaps>>

ListNext == Add \/ Delete \/ Move \/ Tick \/ List

ListSpec == Init /\ [][ListNext]_vars

\* --------------------------------------- sanitize_filename, as a call of its own
\* The characters of the file names: a letter, the dot, the two path
\* separators, a character no file name may hold, a control character and
\* the space.
Chars == {"a", ".", "/", "\\", "*", "\n", " "}

FileNameInputs == UNION {[1..n -> Chars] : n \in 0..MaxLen}

\* A call of sanitize_filename: its argument and, once it returned, its
\* value.
Sanitizing(op, filename, safe_name) ==
  [op |-> op, filename |-> filename, safe_name |-> safe_name]

SanitizeInit ==
  /\ db = [i \in {} |-> 0]
  /\ files = {}
  /\ dirs = {}
  /\ now = 0
  /\ faults = 0
  /\ calls = [s \in Sessions |-> Idle]
  /\ crashes = 0
  /\ overlaps = 0
  /\ last \in {Sanitizing("input", filename, <<>>) : filename \in FileNameInputs}

Sanitize ==
  /\ last.op = "input"
  /\ last' = Sanitizing("sanitize", last.filename,
                        sanitize_filename(last.filename))
  /\ UNCHANGED <<db, files, dirs, now, faults, calls, crashes, overlaps>>

SanitizeSpec == SanitizeInit /\ [][Sanitize]_vars

\* ------------------------------------------------- table and disk, compared
Range(s) == {s[k] : k \in 1..Len(s)}

\* A stored record lists an attachment path that is not on disk.
Dangling(table, fs) ==
  \E i \in DOMAIN table : \E p \in Range(table[i].files) : p \notin fs

\* A file on disk is not listed by a stored record of its id and stage.
Orphaned(table, fs) ==
  \E p \in fs :
    ~(/\ p.id \in DOMAIN table
      /\ table[p.id].stage = p.stage
      /\ p \in Range(table[p.id].files))

\* ------------------------------------------------ the calls, statement by statement
\* The same three operations, one action per statement that touches the
\* table or the disk, so that another session's statements, or the end of
\* the process, can come between two of them.  A call holds the row its
\* query returned (project), the index k of the list entry its loop is at
\* and the paths it has collected; its changes reach the table when the
\* commit of get_db is run.

\* The calls after session s has begun call: a call that began with table
\* and disk in agreement and no other call in flight is clean, and stays so
\* until another session begins a call.
Began(s, call) ==
  [t \in Sessions |->
     IF t = s
     THEN [call EXCEPT !.clean = /\ \A u \in Sessions : calls[u].op = "idle"
                                 /\ ~Dangling(db, files)
                                 /\ ~Orphaned(db, files)]
     ELSE [calls[t] EXCEPT !.clean = FALSE]]

\* The call of session s has returned.
Ended(s) == [calls EXCEPT ![s] = Idle]

\* Session s begins a call, which other calls in flight make an overlap.
Overlap(s) ==
  LET n == B2N(\E t \in Sessions \ {s} : calls[t].op # "idle")
  IN overlaps + n <= MaxOverlaps /\ overlaps' = overlaps + n

\* Nothing has returned since a call began.
Running == Returned("running", 0, 0, 0, "", NoRequest, 0, FALSE, FALSE)

\* An id generate_project_id has returned before and that is still in use:
\* in the table, in an add in flight, or in the name of a directory.
InUse(project_id) ==
  \/ project_id \in DOMAIN db
  \/ \E t \in Sessions : calls[t].op = "add" /\ calls[t].id = project_id
  \/ \E d \in dirs : d = ProjectDir(d[1], project_id)

\* add_project up to the loop over files: the validation, and the id; n is
\* the length of files.  uuid4 returning an id in use is a fault.
BeginAdd(s) ==
  /\ calls[s] = Idle
  /\ Overlap(s)
  /\ \E stage \in StageChoices, request \in Requests :
       IF NameMissing(request.project_data)
       THEN /\ last' = Returned("add", 0, stage, 0, "invalid",
                                [project_data |-> request.project_data,
                                 remark |-> request.remark,
                                 marked |-> request.marked],
                                0, FALSE, FALSE)
            /\ UNCHANGED <<db, files, dirs, now, faults, calls, crashes>>
       ELSE \E n \in 0..MaxFiles, project_id \in Ids :
              /\ Inject(B2N(InUse(project_id)))
              /\ calls' = Began(s, [Idle EXCEPT
                                      !.op = "add", !.pc = "save",
                                      !.id = project_id, !.stage = stage,
                                      !.request = request, !.n = n, !.k = 1])
              /\ last' = Running
              /\ UNCHANGED <<db, files, dirs, now, crashes>>

\* One pass of the loop of add_project: save_uploaded_file of files[k],
\* unless it is None.
AddSave(s) ==
  LET c == calls[s]
  IN /\ c.op = "add"
     /\ c.k <= c.n
     /\ \E file \in Uploads :
          LET st == IF file.present
                    THEN save_uploaded_file(file, c.stage, c.id,
                                            [files |-> files, dirs |-> dirs,
                                             now |-> now, paths |-> c.paths])
                    ELSE [files |-> files, dirs |-> dirs, now |-> now,
                          paths |-> c.paths]
          IN /\ file.tick => now < MaxClock
             /\ Inject(B2N(file.out # "ok"))
             /\ files' = st.files
             /\ dirs' = st.dirs
             /\ now' = st.now
             /\ calls' = [calls EXCEPT ![s].k = c.k + 1,
                                       ![s].paths = st.paths,
                                       ![s].io = c.io \/ file.out # "ok"]
     /\ UNCHANGED <<db, last, crashes, overlaps>>

\* project.files = file_paths; db.add(project); the commit of get_db.
AddCommit(s) ==
  LET c == calls[s]
      project == Project(c.id, c.stage, c.request.project_data,
                         c.request.remark, c.request.marked, c.paths, now)
  IN /\ c.op = "add"
     /\ c.k > c.n
     /\ \E commit_fails \in BOOLEAN :
          LET raised == commit_fails \/ c.id \in DOMAIN db
          IN /\ Inject(B2N(commit_fails))
             /\ db' = get_db(db, Insert(db, project), raised)
             /\ last' = Returned("add", c.id, c.stage, 0,
                                 IF raised THEN "error" ELSE "ok",
                                 c.request, Len(c.paths), c.io, raised)
     /\ calls' = Ended(s)
     /\ UNCHANGED <<files, dirs, now, crashes, overlaps>>

\* The loop of update_project_stage moves on from entry k.
AfterEntry(c) ==
  IF c.k < Len(c.project.files)
  THEN [c EXCEPT !.k = c.k + 1, !.pc = "check"]
  ELSE [c EXCEPT !.k = c.k + 1, !.pc = "cleanup"]

\* update_project_stage up to the loop: the query.  "if project.files:"
\* skips the loop of a record with no attachments.
BeginMove(s) ==
  /\ calls[s] = Idle
  /\ Overlap(s)
  /\ \E project_id \in Ids, new_stage \in StageChoices :
       IF project_id \notin DOMAIN db
       THEN /\ last' = NotFound("move", project_id, new_stage)
            /\ UNCHANGED <<db, files, dirs, now, faults, calls, crashes>>
       ELSE /\ calls' = Began(s, [Idle EXCEPT
                                    !.op = "move",
                                    !.pc = IF db[project_id].files = <<>>
                                           THEN "cleanup" ELSE "check",
                                    !.id = project_id, !.stage = new_stage,
                                    !.project = db[project_id], !.k = 1])
            /\ last' = Running
            /\ UNCHANGED <<db, files, dirs, now, faults, crashes>>

\* if old_abs_path.exists(): an entry whose file is missing is passed over.
MoveCheck(s) ==
  LET c == calls[s]
  IN /\ c.op = "move"
     /\ c.pc = "check"
     /\ calls' = [calls EXCEPT
                    ![s] = IF c.project.files[c.k] \in files
                           THEN [c EXCEPT !.pc = "rename"]
                           ELSE AfterEntry(c)]
     /\ UNCHANGED <<db, files, dirs, now, last, faults, crashes, overlaps>>

\* mkdir, shutil.move and append for entry k.  An OSError (injected, or
\* the file having gone since the check) leaves the with block: the
\* transaction is rolled back and the call returns the failure.
MoveRename(s) ==
  LET c == calls[s]
      rel_path == c.project.files[c.k]
      new_dir == ProjectDir(c.stage, c.id)
  IN /\ c.op = "move"
     /\ c.pc = "rename"
     /\ \E fault \in MoveFaults :
          LET st == IF rel_path \in files
                    THEN MoveOne(rel_path, c.k, c.stage, c.id, fault,
                                 [files |-> files, dirs |-> dirs,
                                  paths |-> c.paths, raised |-> FALSE])
                    ELSE [files |-> files, dirs |-> dirs \cup {new_dir},
                          paths |-> c.paths, raised |-> TRUE]
          IN /\ fault.at \in {0, c.k}
             /\ Inject(B2N(fault # NoFault))
             /\ files' = st.files
             /\ dirs' = st.dirs
             /\ IF st.raised
                THEN /\ calls' = Ended(s)
                     /\ last' = Returned("move", c.id, c.stage,
                                         c.project.stage, "error", NoRequest,
                                         0, TRUE, FALSE)
                ELSE /\ calls' = [calls EXCEPT
                                    ![s] = AfterEntry([c EXCEPT
                                                         !.paths = st.paths])]
                     /\ last' = last
     /\ UNCHANGED <<db, now, crashes, overlaps>>

\* The rmdir of the old directory when it is empty.
MoveCleanup(s) ==
  LET c == calls[s]
      old_dir == ProjectDir(c.project.stage, c.id)
  IN /\ c.op = "move"
     /\ c.pc = "cleanup"
     /\ \E rmdir_fails \in BOOLEAN :
          /\ Inject(B2N(rmdir_fails))
          /\ dirs' = CleanOldDir(dirs, files, old_dir, rmdir_fails)
          /\ calls' = [calls EXCEPT
                         ![s].pc = "commit",
                         ![s].io = c.io \/ (/\ rmdir_fails
                                            /\ old_dir \in dirs
                                            /\ FilesIn(files, old_dir) = {})]
     /\ UNCHANGED <<db, files, now, last, crashes, overlaps>>

\* Mutant of Flushed: the UPDATE sets the stage and leaves the attachments.
FlushedStageOnly(row, project, new_stage, new_files, t) ==
  IF project.stage = new_stage THEN row
  ELSE [row EXCEPT !.stage = new_stage, !.update_time = t]

\* The UPDATE of a flush: it sets the columns whose value differs from the
\* one the session loaded (project), in the row the table holds now.
Flushed(row, project, new_stage, new_files, t) ==
  IF project.stage = new_stage /\ project.files = new_files THEN row
  ELSE [row EXCEPT
          !.stage = IF project.stage = new_stage THEN @ ELSE new_stage,
          !.files = IF project.files = new_files THEN @ ELSE new_files,
          !.update_time = t]

\* The commit of get_db in update_project_stage.  An UPDATE that matches no
\* row (the row was deleted meanwhile) raises StaleDataError.
MoveCommit(s) ==
  LET c == calls[s]
      changed == c.project.stage # c.stage \/ c.project.files # c.paths
  IN /\ c.op = "move"
     /\ c.pc = "commit"
     /\ \E commit_fails \in BOOLEAN :
          LET dbf == changed /\ (commit_fails \/ c.id \notin DOMAIN db)
          IN /\ Inject(B2N(commit_fails))
             /\ db' = IF dbf \/ ~changed THEN db
                      ELSE [db EXCEPT
                              ![c.id] = Flushed(db[c.id], c.project, c.stage,
                                                c.paths, now)]
             /\ last' = Returned("move", c.id, c.stage, c.project.stage,
                                 IF dbf THEN "error" ELSE "ok", NoRequest, 0,
                                 c.io, dbf)
     /\ calls' = Ended(s)
     /\ UNCHANGED <<files, dirs, now, crashes, overlaps>>

\* delete_project up to delete_project_files: the query.
BeginDelete(s) ==
  /\ calls[s] = Idle
  /\ Overlap(s)
  /\ \E project_id \in Ids :
       IF project_id \notin DOMAIN db
       THEN /\ last' = NotFound("delete", project_id, 0)
            /\ UNCHANGED <<db, files, dirs, now, faults, calls, crashes>>
       ELSE /\ calls' = Began(s, [Idle EXCEPT
                                    !.op = "delete",
                                    !.pc = IF NothingToDelete(db[project_id])
                                           THEN "commit" ELSE "remove",
                                    !.id = project_id,
                                    !.project = db[project_id], !.k = 1])
            /\ last' = Running
            /\ UNCHANGED <<db, files, dirs, now, faults, crashes>>

\* One pass of the loop of delete_project_files: os.remove of entry k.
DeleteRemove(s) ==
  LET c == calls[s]
      rel_path == c.project.files[c.k]
  IN /\ c.op = "delete"
     /\ c.pc = "remove"
     /\ \E fails \in BOOLEAN :
          LET st == RemoveAll(<<rel_path>>, 1, IF fails THEN {1} ELSE {},
                              [files |-> files, io |-> FALSE])
          IN /\ Inject(B2N(fails))
             /\ files' = st.files
             /\ calls' = [calls EXCEPT
                            ![s].k = c.k + 1,
                            ![s].pc = IF c.k < Len(c.project.files)
                                      THEN "remove" ELSE "rmtree",
                            ![s].io = c.io \/ st.io]
     /\ UNCHANGED <<db, dirs, now, last, crashes, overlaps>>

\* shutil.rmtree of the project directory, if it exists.
DeleteTree(s) ==
  LET c == calls[s]
      project_dir == ProjectDir(c.project.stage, c.id)
  IN /\ c.op = "delete"
     /\ c.pc = "rmtree"
     /\ \E fails \in BOOLEAN, removed \in SUBSET FilesIn(files, project_dir) :
          /\ fails => project_dir \in dirs
          /\ ~fails => removed = {}
          /\ Inject(B2N(fails))
          /\ files' = IF project_dir \notin dirs THEN files
                      ELSE IF fails THEN files \ removed
                      ELSE files \ FilesIn(files, project_dir)
          /\ dirs' = IF fails THEN dirs ELSE dirs \ {project_dir}
          /\ calls' = [calls EXCEPT ![s].pc = "commit",
                                    ![s].io = c.io \/ fails]
     /\ UNCHANGED <<db, now, last, crashes, overlaps>>

\* db.delete(project) and the commit of get_db.  A DELETE that matches no
\* row is only warned about.
DeleteCommit(s) ==
  LET c == calls[s]
  IN /\ c.op = "delete"
     /\ c.pc = "commit"
     /\ \E commit_fails \in BOOLEAN :
          /\ Inject(B2N(commit_fails))
          /\ db' = get_db(db, Remove(db, c.id), commit_fails)
          /\ last' = Returned("delete", c.id, 0, c.project.stage,
                              IF commit_fails THEN "error" ELSE "ok",
                              NoRequest, 0, c.io, commit_fails)
     /\ calls' = Ended(s)
     /\ UNCHANGED <<files, dirs, now, crashes, overlaps>>

\* What is left of the calls of a process that was killed.
Crashed(call) == [op |-> "crash", call |-> call]

\* The process is killed while a call is in flight, and started again: the
\* table keeps what was committed, the disk what was written.  A crash
\* counts as one of the faults of the run.
Crash ==
  /\ crashes < MaxCrashes
  /\ Inject(1)
  /\ \E s \in Sessions :
       /\ calls[s].op # "idle"
       /\ last' = Crashed(calls[s])
  /\ crashes' = crashes + 1
  /\ calls' = [s \in Sessions |-> Idle]
  /\ UNCHANGED <<db, files, dirs, now, overlaps>>

\* One session, whose calls the end of the process can interrupt.
CrashNext ==
  \/ BeginAdd(1) \/ AddSave(1) \/ AddCommit(1)
  \/ BeginMove(1) \/ MoveCheck(1) \/ MoveRename(1) \/ MoveCleanup(1)
  \/ MoveCommit(1)
  \/ BeginDelete(1) \/ DeleteRemove(1) \/ DeleteTree(1) \/ DeleteCommit(1)
  \/ Crash

CrashSpec == Init /\ [][CrashNext]_vars

\* Runs of several sessions in which no fault is injected.
ConcInit ==
  /\ db = [i \in {} |-> 0]
  /\ files = {}
  /\ dirs = {}
  /\ now = 0
  /\ last = Returned("init", 0, 0, 0, "ok", NoRequest, 0, FALSE, FALSE)
  /\ faults = MaxFaults
  /\ calls = [s \in Sessions |-> Idle]
  /\ crashes = 0
  /\ overlaps = 0

ConcNext ==
  \E s \in Sessions :
    \/ BeginAdd(s) \/ AddSave(s) \/ AddCommit(s)
    \/ BeginMove(s) \/ MoveCheck(s) \/ MoveRename(s) \/ MoveCleanup(s)
    \/ MoveCommit(s)
    \/ BeginDelete(s) \/ DeleteRemove(s) \/ DeleteTree(s) \/ DeleteCommit(s)

ConcSpec == ConcInit /\ [][ConcNext]_vars

\* =================================================================== claims
MovedOk == last.op = "move" /\ last.result = "ok"

\* C1: in every state, every attachment path of every stored record has the
\* record's current stage as its stage segment and the record's id as its
\* id segment.
C1_PathsMatchRecord ==
  \A i \in DOMAIN db :
    \A k \in 1..Len(db[i].files) :
      db[i].files[k].stage = db[i].stage /\ db[i].files[k].id = db[i].id

\* C1 witness: a record with attachments has just been moved to another
\* stage.
C1_Witness ==
  /\ MovedOk
  /\ last.old_stage # last.stage
  /\ Len(db[last.id].files) = 2

\* The directory old_stage/id held nothing but the record's attachments.
OnlyAttachments(project_id) ==
  FilesIn(files, ProjectDir(db[project_id].stage, project_id))
    \subseteq Range(db[project_id].files)

\* C2 (as stated): after a successful move to any stage s2 the record's stage
\* is s2, every attachment path has stage segment s2, and the directory
\* old_stage/id is gone when it held nothing but the record's attachments.
C2_Original ==
  [][(last'.op = "move" /\ last'.result = "ok") =>
       /\ db'[last'.id].stage = last'.stage
       /\ \A p \in Range(db'[last'.id].files) : p.stage = last'.stage
       /\ OnlyAttachments(last'.id) =>
            ProjectDir(last'.old_stage, last'.id) \notin dirs']_vars

\* C2 (amended): after a successful move to any stage s2 the record's stage
\* is s2 and every attachment path has stage segment s2; when s2 is another
\* stage than the record had and the rmdir did not raise, the directory
\* old_stage/id is gone if it held nothing but the record's attachments.
C2_MoveRelocates ==
  [][(last'.op = "move" /\ last'.result = "ok") =>
       /\ db'[last'.id].stage = last'.stage
       /\ \A p \in Range(db'[last'.id].files) : p.stage = last'.stage
       /\ (OnlyAttachments(last'.id) /\ last'.old_stage # last'.stage
           /\ ~last'.io) =>
            ProjectDir(last'.old_stage, last'.id) \notin dirs']_vars

\* C2 witness: a move to another stage has relocated two attachments and
\* removed the old directory.
C2_Witness ==
  /\ MovedOk
  /\ last.old_stage # last.stage
  /\ ~last.io
  /\ Len(db[last.id].files) = 2
  /\ Range(db[last.id].files) \subseteq files
  /\ ProjectDir(last.old_stage, last.id) \notin dirs

\* The call was a move of a stored record to the stage it already has.
MoveToSameStage ==
  /\ last'.op = "move"
  /\ last'.id \in DOMAIN db
  /\ last'.stage = db[last'.id].stage

\* C3 (as stated): a move to the record's current stage returns success and
\* leaves the record's stage and attachment list and the files on disk
\* as they were.
C3_Original ==
  [][MoveToSameStage =>
       /\ last'.result = "ok"
       /\ db'[last'.id].stage = db[last'.id].stage
       /\ db'[last'.id].files = db[last'.id].files
       /\ files' = files]_vars

\* C3 (amended): a move to the record's current stage, when every listed
\* attachment file is on disk, returns success and leaves the record's stage
\* and attachment list and the files on disk as they were.
C3_SameStageIdempotent ==
  [][(MoveToSameStage /\ Range(db[last'.id].files) \subseteq files) =>
       /\ last'.result = "ok"
       /\ db'[last'.id].stage = db[last'.id].stage
       /\ db'[last'.id].files = db[last'.id].files
       /\ files' = files]_vars

\* C3 witness: a record with two attachments on disk has been moved to its
\* own stage.
C3_Witness ==
  /\ MovedOk
  /\ last.old_stage = last.stage
  /\ Len(db[last.id].files) = 2
  /\ Range(db[last.id].files) \subseteq files

\* C4 (as stated, for a delete that met no I/O error): after a successful
\* delete the record is not stored and the directory stage/id of its last
\* stage does not exist.
C4_Original ==
  (last.op = "delete" /\ last.result = "ok" /\ ~last.io) =>
    /\ ~DetailFound(db, last.id)
    /\ \A stage \in PROJECT_STAGES :
         \A k \in 1..Len(get_projects_by_stage(db, stage, DefaultLimit)) :
           get_projects_by_stage(db, stage, DefaultLimit)[k].id # last.id
    /\ ProjectDir(last.old_stage, last.id) \notin dirs

\* C5: add with an empty name returns the validation failure and changes
\* neither the table nor the disk.
C5_EmptyNameNoEffect ==
  [][(last'.op = "add" /\ last'.request.project_data["name"] = "") =>
       /\ last'.result = "invalid"
       /\ db' = db
       /\ files' = files
       /\ dirs' = dirs]_vars

\* C5 witness: an add with an empty name was rejected while a record and
\* its files exist.
C5_Witness ==
  /\ last.op = "add"
  /\ last.result = "invalid"
  /\ DOMAIN db # {}
  /\ files # {}

\* C6: move and delete of an id no stored record has return not-found and
\* change neither the table nor the disk.
C6_UnknownIdNoEffect ==
  [][(last'.op \in {"move", "delete"} /\ last'.id \notin DOMAIN db) =>
       /\ last'.result = "notfound"
       /\ db' = db
       /\ files' = files
       /\ dirs' = dirs]_vars

\* C6 witness: a move of an unknown id was refused while another record
\* and its files exist.
C6_Witness ==
  /\ last.op = "move"
  /\ last.result = "notfound"
  /\ last.id \notin DOMAIN db
  /\ DOMAIN db # {}
  /\ files # {}

\* The ids get_projects_by_stage lists for a stage.
Listed(table, stage) ==
  {get_projects_by_stage(table, stage, DefaultLimit)[k].id :
     k \in 1..Len(get_projects_by_stage(table, stage, DefaultLimit))}

\* C7 (as stated): a successful move to another stage of a record whose
\* listed attachment files are on disk takes it out of the old stage's list,
\* puts it in the new stage's list and keeps its attachment count.
C7_Original ==
  [][(/\ last'.op = "move"
      /\ last'.result = "ok"
      /\ last'.old_stage # last'.stage
      /\ Range(db[last'.id].files) \subseteq files) =>
       /\ last'.id \notin Listed(db', last'.old_stage)
       /\ last'.id \in Listed(db', last'.stage)
       /\ Len(db'[last'.id].files) = Len(db[last'.id].files)]_vars

\* C8: a successful add stores the stage, name, attributes, remark and mark
\* supplied and as many attachments as saves succeeded; a failed save does
\* not abort the add.
C8_AddStoresInputs ==
  [][(last'.op = "add" /\ last'.request.project_data["name"] # "") =>
       /\ ~last'.dbf => last'.result = "ok"
       /\ last'.result = "ok" =>
            LET row == db'[last'.id]
                given == last'.request.project_data
            IN /\ row.id = last'.id
               /\ row.stage = last'.stage
               /\ row.name = given["name"]
               /\ row.project_type = given["type"]
               /\ row.industry = given["industry"]
               /\ row.industry_code = given["industry_code"]
               /\ row.financial_data = given["financial"]
               /\ row.team = given["team"]
               /\ row.business_model = given["model"]
               /\ row.core_resource = given["resource"]
               /\ row.market_share = given["share"]
               /\ row.business_outlook = given["outlook"]
               /\ row.other_info = given["other"]
               /\ row.remark = last'.request.remark
               /\ row.marked = last'.request.marked
               /\ Len(row.files) = last'.nsaved]_vars

\* C8 witness: an add succeeded although one of its files failed to save,
\* and stored the one that was saved.
C8_Witness ==
  /\ last.op = "add"
  /\ last.result = "ok"
  /\ last.io
  /\ last.nsaved = 1
  /\ Len(db[last.id].files) = 1

\* C9 (as stated): an add, move or delete in which a file operation raised
\* an I/O error (and the database did not fail) still returns success.
C9_Original ==
  (last.op \in {"add", "move", "delete"} /\ last.io /\ ~last.dbf) =>
    last.result = "ok"

\* C10: a call whose database transaction failed (its commit raised, or an
\* exception left the transaction) returns a failure and leaves the table as
\* it was.
C10_FailedCommitRollsBack ==
  [][(last'.op \in {"add", "move", "delete"}) =>
       /\ last'.dbf => last'.result = "error"
       /\ last'.result = "error" => db' = db]_vars

\* C10 witness: the commit of a move of a record with attachments failed.
C10_Witness ==
  /\ last.op = "move"
  /\ last.dbf
  /\ last.id \in DOMAIN db
  /\ db[last.id].files # <<>>

C12_ListByStage ==
  [][last'.op = "list" =>
       LET rows == last'.rows
           of_stage == {i \in DOMAIN db : db[i].stage = last'.stage}
           shown == {rows[k].id : k \in 1..Len(rows)}
       IN /\ UNCHANGED <<db, files, dirs, now>>
          /\ shown \subseteq of_stage
          /\ \A j, k \in 1..Len(rows) : j # k => rows[j].id # rows[k].id
          /\ Len(rows) <= last'.limit
          /\ Cardinality(of_stage) <= last'.limit => shown = of_stage
          /\ Cardinality(of_stage) > last'.limit => Len(rows) = last'.limit
          /\ \A j, k \in 1..Len(rows) :
               j < k => db[rows[j].id].update_time >= db[rows[k].id].update_time
          /\ \A i \in of_stage \ shown : \A k \in 1..Len(rows) :
               db[i].update_time <= db[rows[k].id].update_time]_vars

\* C12 witness: the limit cut a list of two records, updated at different
\* times, down to the one updated last.
C12_Witness ==
  /\ last.op = "list"
  /\ Len(last.rows) = 1
  /\ \E i \in DOMAIN db :
       /\ i # last.rows[1].id
       /\ db[i].stage = last.stage
       /\ db[i].update_time < db[last.rows[1].id].update_time

\* C13: sanitize_filename returns, for every string, the empty one and
\* those with path separators or control characters included, a string that
\* is not empty and holds neither "/" nor "\".
C13_SanitizeTotal ==
  last.op = "sanitize" =>
    /\ last.safe_name # <<>>
    /\ \A k \in 1..Len(last.safe_name) : last.safe_name[k] \notin {"/", "\\"}

\* C13 witness: a name made of a slash, a backslash and a control character
\* has been sanitized.
C13_Witness ==
  /\ last.op = "sanitize"
  /\ {"/", "\\", "\n"} \subseteq Range(last.filename)
  /\ last.safe_name # <<>>

\* The paths of a list rewritten for a stage, in the order of the list.
Relocated(paths, new_stage, project_id) ==
  [k \in 1..Len(paths) |->
     [stage |-> new_stage, id |-> project_id, file |-> paths[k].file]]

\* C18 (as stated): a move that met no fault returns success; its new
\* attachment list is made of the attachments whose file was on disk at its
\* old path, in their order and relocated, and leaves out the others.
C18_Original ==
  [][(/\ last'.op = "move"
      /\ last'.id \in DOMAIN db
      /\ ~last'.io
      /\ ~last'.dbf) =>
       LET kept == SelectSeq(db[last'.id].files, LAMBDA p : p \in files)
       IN /\ last'.result = "ok"
          /\ db'[last'.id].files = Relocated(kept, last'.stage, last'.id)
          /\ Range(db'[last'.id].files) \subseteq files']_vars

\* C19: as long as no call met an I/O or database failure, after every
\* completed add, move and delete every attachment path of every stored
\* record is on disk and every file on disk is listed by the stored record
\* of its id, which has the stage of the file's directory.
C19_TableAndDiskAgree ==
  faults = 0 => ~Dangling(db, files) /\ ~Orphaned(db, files)

\* C19 witness: with no failure so far, a record with attachments has been
\* deleted while another, with an attachment, has been moved since it was
\* added.
C19_Witness ==
  /\ faults = 0
  /\ last.op = "delete"
  /\ last.result = "ok"
  /\ files # {}
  /\ \E i \in DOMAIN db :
       /\ db[i].files # <<>>
       /\ db[i].update_time > db[i].create_time

\* The file names of a list of paths, in the order of the list.
Names(paths) == [k \in 1..Len(paths) |-> paths[k].file]

\* a can be had from b by leaving entries out.
RECURSIVE IsSubseq(_, _)
IsSubseq(a, b) ==
  IF a = <<>> THEN TRUE
  ELSE IF b = <<>> THEN FALSE
  ELSE IF Head(a) = Head(b) THEN IsSubseq(Tail(a), Tail(b))
  ELSE IsSubseq(a, Tail(b))

\* C20: a successful move changes, of the table, only the stage, the
\* attachment list and the update time of the moved record; the file names
\* of the attachments it keeps are the old ones in the old order; the files
\* and directories of every other id stay as they were.
C20_MoveFrame ==
  [][(last'.op = "move" /\ last'.result = "ok") =>
       /\ DOMAIN db' = DOMAIN db
       /\ \A j \in DOMAIN db \ {last'.id} : db'[j] = db[j]
       /\ db'[last'.id] =
            [db[last'.id] EXCEPT !.stage = db'[last'.id].stage,
                                 !.files = db'[last'.id].files,
                                 !.update_time = db'[last'.id].update_time]
       /\ IsSubseq(Names(db'[last'.id].files), Names(db[last'.id].files))
       /\ {p \in files' : p.id # last'.id} = {p \in files : p.id # last'.id}
       /\ {d \in dirs' : d[2] # last'.id} = {d \in dirs : d[2] # last'.id}]_vars

\* C20 witness: a record with attachments has been moved to another stage
\* while another record with attachments on disk is stored.
C20_Witness ==
  /\ MovedOk
  /\ last.old_stage # last.stage
  /\ db[last.id].files # <<>>
  /\ \E j \in DOMAIN db \ {last.id} :
       db[j].files # <<>> /\ Range(db[j].files) \subseteq files

\* C14: while an add is in flight no file leaves the disk and every path
\* the add has collected is on disk; the table changes only in the step that
\* comes after the last save, which inserts the row with the collected
\* paths, all on disk; a crash changes neither the table nor the disk.  So
\* the process ending at any point of an add leaves no stored record of it
\* that lists a path missing from disk.
C14_SavesBeforeInsert ==
  [][\A s \in Sessions :
       calls[s].op = "add" =>
         LET c == calls[s]
         IN /\ files \subseteq files'
            /\ calls'[s].op = "add" => Range(calls'[s].paths) \subseteq files'
            /\ db' # db =>
                 /\ c.k > c.n
                 /\ calls'[s].op = "idle"
                 /\ c.id \notin DOMAIN db
                 /\ DOMAIN db' = DOMAIN db \cup {c.id}
                 /\ \A i \in DOMAIN db : db'[i] = db[i]
                 /\ db'[c.id].files = c.paths
                 /\ Range(db'[c.id].files) \subseteq files'
            /\ last'.op = "crash" => db' = db /\ files' = files]_vars

\* C14 witness: the process ended during an add that had saved a file; the
\* file is on disk and no record of that id is stored.
C14_Witness ==
  /\ last.op = "crash"
  /\ last.call.op = "add"
  /\ last.call.paths # <<>>
  /\ Range(last.call.paths) \subseteq files
  /\ last.call.id \notin DOMAIN db

\* C15: while a move is in flight the table changes only in the commit
\* step, after the loop and the cleanup, and then the row gets the new stage
\* and the whole new list at once, every path of which has the new stage;
\* before that the row is the old one, and once the loop is over the
\* relocated files are on disk at their new paths, so that a crash there
\* (which changes neither table nor disk) leaves them at the new location
\* under a row that shows the old stage and the old paths.
C15_MoveOldOrNew ==
  [][\A s \in Sessions :
       calls[s].op = "move" =>
         LET c == calls[s]
         IN /\ db[c.id] = c.project
            /\ \/ db' = db
               \/ /\ c.pc = "commit"
                  /\ db' = [db EXCEPT
                              ![c.id] = [c.project EXCEPT
                                           !.stage = c.stage,
                                           !.files = c.paths,
                                           !.update_time = now]]
            /\ c.pc \in {"cleanup", "commit"} =>
                 /\ Range(c.paths) \subseteq files
                 /\ \A p \in Range(c.paths) : p.stage = c.stage /\ p.id = c.id
            /\ last'.op = "crash" =>
                 db' = db /\ files' = files /\ dirs' = dirs]_vars

\* C15 witness: the process ended after a move to another stage had
\* relocated the record's files and before its commit: the files are at the
\* new paths, none at the old ones, and the row is the old one.
C15_Witness ==
  /\ last.op = "crash"
  /\ last.call.op = "move"
  /\ last.call.pc \in {"cleanup", "commit"}
  /\ last.call.stage # last.call.project.stage
  /\ last.call.paths # <<>>
  /\ Range(last.call.paths) \subseteq files
  /\ Range(last.call.project.files) \cap files = {}
  /\ db[last.call.id] = last.call.project

\* C16 (as stated): in a run with no I/O or database failure (a crash at
\* most), the step of a delete that takes the row out of the table finds the
\* record's files and its directory stage/id removed.
C16_Original ==
  [][\A s \in Sessions :
       (/\ calls[s].op = "delete"
        /\ faults' = crashes'
        /\ calls[s].id \in DOMAIN db
        /\ calls[s].id \notin DOMAIN db') =>
         /\ Range(calls[s].project.files) \cap files' = {}
         /\ ProjectDir(calls[s].project.stage, calls[s].id) \notin dirs']_vars

\* C17: calls take no lock, and only their interleaving makes table and
\* disk disagree: in runs without faults, a call that began with table and
\* disk in agreement and had no other call in flight beside it ends with
\* them in agreement.
C17_AloneKeepsAgreement ==
  [][\A s \in Sessions :
       (calls[s].op # "idle" /\ calls[s].clean /\ calls'[s].op = "idle") =>
         ~Dangling(db', files') /\ ~Orphaned(db', files')]_vars

\* C17 witness: a move and a delete of the same record have run
\* interleaved: the move's UPDATE found the row deleted, no call is in
\* flight, and files of the record remain on disk with no stored record.
C17_Witness ==
  /\ \A s \in Sessions : calls[s].op = "idle"
  /\ last.op = "move"
  /\ last.dbf
  /\ last.id \notin DOMAIN db
  /\ \E p \in files : p.id = last.id

====
